---- MODULE Spec2Model ----
(***************************************************************************)
(* Model of the MalShare ETL connector (etl_connector.py):                 *)
(* MalShareETLConnector._make_api_request, extract_sample_list,            *)
(* extract_sample_details, transform_data, _calculate_completeness,        *)
(* load_data and run_etl_pipeline.                                         *)
(*                                                                         *)
(* Python strings are sequences of one-character strings.  JSON / Python   *)
(* values are records tagged by the field t: "none" (Python None), "null"  *)
(* (JSON null, also Python None but kept apart from "no data"), "str",     *)
(* "int", "list", "dict".                                                  *)
(***************************************************************************)
EXTENDS Integers, Sequences, FiniteSets, TLC

(***************************************************************************)
(* Bounds of the model.                                                    *)
(***************************************************************************)
MaxRetries == 1
MaxAttempts == 3
MaxLimit == 2
MaxClock == 1
MaxWords == 2
MaxLines == 3

(***************************************************************************)
(* Python values.                                                          *)
(***************************************************************************)
None == [t |-> "none"]
JNull == [t |-> "null"]
JStr(s) == [t |-> "str", s |-> s]
JInt(n) == [t |-> "int", n |-> n]
JList(l) == [t |-> "list", l |-> l]
JDict(d) == [t |-> "dict", d |-> d]
EmptyDict == [k \in {} |-> None]

\* bool(v): None, {}, [], "" and 0 are falsy
Truthy(v) ==
    CASE v.t = "none" -> FALSE
      [] v.t = "null" -> FALSE
      [] v.t = "str" -> v.s # <<>>
      [] v.t = "int" -> v.n # 0
      [] v.t = "list" -> v.l # <<>>
      [] v.t = "dict" -> DOMAIN v.d # {}

\* isinstance(v, dict)
IsDict(v) == v.t = "dict"
\* isinstance(v, str)
IsStr(v) == v.t = "str"

(***************************************************************************)
(* Python string functions on sequences of characters.  A character is a   *)
(* one-character string when it is an ASCII character a TLA+ string can    *)
(* hold, and its code point ("U+00A0") otherwise.  The alphabet is ASCII,  *)
(* the non-ASCII white space and the non-ASCII decimal digits; letters     *)
(* outside ASCII are not part of it.                                       *)
(***************************************************************************)
\* the characters str.strip() removes and \s matches (str.isspace)
Whitespace ==
    {"\t", "\n", "U+000B", "\f", "\r", "U+001C", "U+001D", "U+001E",
     "U+001F", " ", "U+0085", "U+00A0", "U+1680", "U+2000", "U+2001", "U+2002",
     "U+2003", "U+2004", "U+2005", "U+2006", "U+2007", "U+2008", "U+2009", "U+200A",
     "U+2028", "U+2029", "U+202F", "U+205F", "U+3000"}

RECURSIVE LStrip(_)
LStrip(s) == IF s # <<>> /\ Head(s) \in Whitespace THEN LStrip(Tail(s)) ELSE s

RECURSIVE RStrip(_)
RStrip(s) ==
    IF s # <<>> /\ s[Len(s)] \in Whitespace
    THEN RStrip(SubSeq(s, 1, Len(s) - 1))
    ELSE s

\* str.strip()
Strip(s) == RStrip(LStrip(s))

\* str.split(sep) for a one-character separator: always at least one piece
RECURSIVE SplitAcc(_, _, _)
SplitAcc(s, sep, cur) ==
    IF s = <<>> THEN <<cur>>
    ELSE IF Head(s) = sep THEN <<cur>> \o SplitAcc(Tail(s), sep, <<>>)
    ELSE SplitAcc(Tail(s), sep, Append(cur, Head(s)))

Split(s, sep) == SplitAcc(s, sep, <<>>)

\* str.lower()
LowerChar(c) ==
    CASE c = "A" -> "a" [] c = "B" -> "b" [] c = "C" -> "c" [] c = "D" -> "d"
      [] c = "E" -> "e" [] c = "F" -> "f" [] c = "G" -> "g" [] c = "H" -> "h"
      [] c = "I" -> "i" [] c = "J" -> "j" [] c = "K" -> "k" [] c = "L" -> "l"
      [] c = "M" -> "m" [] c = "N" -> "n" [] c = "O" -> "o" [] c = "P" -> "p"
      [] c = "Q" -> "q" [] c = "R" -> "r" [] c = "S" -> "s" [] c = "T" -> "t"
      [] c = "U" -> "u" [] c = "V" -> "v" [] c = "W" -> "w" [] c = "X" -> "x"
      [] c = "Y" -> "y" [] c = "Z" -> "z"
      [] OTHER -> c

Lower(s) == [i \in 1..Len(s) |-> LowerChar(s[i])]

\* sub in s
Contains(s, sub) ==
    \E i \in 0..(Len(s) - Len(sub)) : SubSeq(s, i + 1, i + Len(sub)) = sub

(***************************************************************************)
(* Configuration (MalShareETLConnector.__init__).                          *)
(***************************************************************************)
\* the values of RATE_LIMIT_DELAY the runs are made with: whole seconds above
\* zero (the code takes any float; time.sleep raises ValueError on a negative
\* one, and such a setting is outside the model)
Delays == {1, 3}

VARIABLES
    max_retries,      \* self.max_retries
    rate_limit_delay, \* self.rate_limit_delay
    sample_limit,     \* the sample_limit argument of run_etl_pipeline
    pc,               \* position of the single thread of control
    call,             \* the pending _make_api_request call: action and hash
    attempt,          \* loop variable of _make_api_request
    sample_hashes,    \* run_etl_pipeline local
    idx,              \* i of enumerate(sample_hashes, 1)
    successful_loads, \* run_etl_pipeline local
    failed_loads,     \* run_etl_pipeline local
    transformed_data, \* run_etl_pipeline local, the argument of load_data
    collection,       \* documents of self.collection
    closed,           \* number of mongo_client.close() calls so far
    clock,            \* datetime.now(timezone.utc)
    exc,              \* exception that left run_etl_pipeline, "none" if none
    summary,          \* what the pipeline summary logged
    \* observations of what the program did
    requests,         \* number of requests.get calls so far
    outcomes,         \* outcome of each attempt of the current or last call
    waits,            \* time.sleep durations of the current or last call
    last_resp,        \* the answer to the last requests.get
    api_result,       \* value the last finished _make_api_request returned
    first_try,        \* no request failed and no store write raised so far
    details_calls,    \* extract_sample_details calls per list position
    transforms,       \* transform_data calls per list position
    store_writes,     \* replace_one calls per list position
    fate,             \* how each list position was tallied
    thrown,           \* the exception raised inside the try block and where
    sleeps,           \* inter-sample time.sleep calls so far
    load_arg,         \* the record the last load_data call got
    load_outcome,     \* what the store did in the last load_data call
    load_ret,         \* what the last load_data call returned
    prev_load,        \* argument, outcome and result of the call before it
    coll_before,      \* the collection before the last load_data call
    last_loaded,      \* per key, the record of the last successful load_data
    last_applied,     \* per key, the last load_data call the store applied
    details,          \* run_etl_pipeline local raw_data
    stats,            \* main local: what get_collection_stats returned
    ops_after_close,  \* store operations issued after mongo_client.close()
    caught,           \* what main's try block caught, and where it arose
    fn,               \* the method applied on its own, "none" before
    fn_args,          \* its arguments
    fn_ret            \* what it returned or raised

vars == <<max_retries, rate_limit_delay, sample_limit, pc, call, attempt, sample_hashes, idx,
          successful_loads, failed_loads, transformed_data, collection,
          closed, clock, exc, summary, requests, outcomes, waits, last_resp,
          api_result, first_try, details_calls, transforms, store_writes,
          fate, thrown, sleeps, load_arg, load_outcome, load_ret, prev_load,
          coll_before, last_loaded, last_applied, details, stats, ops_after_close, caught,
          fn, fn_args, fn_ret>>

(***************************************************************************)
(* datetime.strptime(s, '%Y-%m-%d %H:%M:%S')                               *)
(***************************************************************************)
AsciiDigits == {"0", "1", "2", "3", "4", "5", "6", "7", "8", "9"}

\* the non-ASCII decimal digits, in rows of the digits 0 to 9 of one script
DigitRows ==
    <<
     <<"U+0660", "U+0661", "U+0662", "U+0663", "U+0664",
       "U+0665", "U+0666", "U+0667", "U+0668", "U+0669">>,
     <<"U+06F0", "U+06F1", "U+06F2", "U+06F3", "U+06F4",
       "U+06F5", "U+06F6", "U+06F7", "U+06F8", "U+06F9">>,
     <<"U+07C0", "U+07C1", "U+07C2", "U+07C3", "U+07C4",
       "U+07C5", "U+07C6", "U+07C7", "U+07C8", "U+07C9">>,
     <<"U+0966", "U+0967", "U+0968", "U+0969", "U+096A",
       "U+096B", "U+096C", "U+096D", "U+096E", "U+096F">>,
     <<"U+09E6", "U+09E7", "U+09E8", "U+09E9", "U+09EA",
       "U+09EB", "U+09EC", "U+09ED", "U+09EE", "U+09EF">>,
     <<"U+0A66", "U+0A67", "U+0A68", "U+0A69", "U+0A6A",
       "U+0A6B", "U+0A6C", "U+0A6D", "U+0A6E", "U+0A6F">>,
     <<"U+0AE6", "U+0AE7", "U+0AE8", "U+0AE9", "U+0AEA",
       "U+0AEB", "U+0AEC", "U+0AED", "U+0AEE", "U+0AEF">>,
     <<"U+0B66", "U+0B67", "U+0B68", "U+0B69", "U+0B6A",
       "U+0B6B", "U+0B6C", "U+0B6D", "U+0B6E", "U+0B6F">>,
     <<"U+0BE6", "U+0BE7", "U+0BE8", "U+0BE9", "U+0BEA",
       "U+0BEB", "U+0BEC", "U+0BED", "U+0BEE", "U+0BEF">>,
     <<"U+0C66", "U+0C67", "U+0C68", "U+0C69", "U+0C6A",
       "U+0C6B", "U+0C6C", "U+0C6D", "U+0C6E", "U+0C6F">>,
     <<"U+0CE6", "U+0CE7", "U+0CE8", "U+0CE9", "U+0CEA",
       "U+0CEB", "U+0CEC", "U+0CED", "U+0CEE", "U+0CEF">>,
     <<"U+0D66", "U+0D67", "U+0D68", "U+0D69", "U+0D6A",
       "U+0D6B", "U+0D6C", "U+0D6D", "U+0D6E", "U+0D6F">>,
     <<"U+0DE6", "U+0DE7", "U+0DE8", "U+0DE9", "U+0DEA",
       "U+0DEB", "U+0DEC", "U+0DED", "U+0DEE", "U+0DEF">>,
     <<"U+0E50", "U+0E51", "U+0E52", "U+0E53", "U+0E54",
       "U+0E55", "U+0E56", "U+0E57", "U+0E58", "U+0E59">>,
     <<"U+0ED0", "U+0ED1", "U+0ED2", "U+0ED3", "U+0ED4",
       "U+0ED5", "U+0ED6", "U+0ED7", "U+0ED8", "U+0ED9">>,
     <<"U+0F20", "U+0F21", "U+0F22", "U+0F23", "U+0F24",
       "U+0F25", "U+0F26", "U+0F27", "U+0F28", "U+0F29">>,
     <<"U+1040", "U+1041", "U+1042", "U+1043", "U+1044",
       "U+1045", "U+1046", "U+1047", "U+1048", "U+1049">>,
     <<"U+1090", "U+1091", "U+1092", "U+1093", "U+1094",
       "U+1095", "U+1096", "U+1097", "U+1098", "U+1099">>,
     <<"U+17E0", "U+17E1", "U+17E2", "U+17E3", "U+17E4",
       "U+17E5", "U+17E6", "U+17E7", "U+17E8", "U+17E9">>,
     <<"U+1810", "U+1811", "U+1812", "U+1813", "U+1814",
       "U+1815", "U+1816", "U+1817", "U+1818", "U+1819">>,
     <<"U+1946", "U+1947", "U+1948", "U+1949", "U+194A",
       "U+194B", "U+194C", "U+194D", "U+194E", "U+194F">>,
     <<"U+19D0", "U+19D1", "U+19D2", "U+19D3", "U+19D4",
       "U+19D5", "U+19D6", "U+19D7", "U+19D8", "U+19D9">>,
     <<"U+1A80", "U+1A81", "U+1A82", "U+1A83", "U+1A84",
       "U+1A85", "U+1A86", "U+1A87", "U+1A88", "U+1A89">>,
     <<"U+1A90", "U+1A91", "U+1A92", "U+1A93", "U+1A94",
       "U+1A95", "U+1A96", "U+1A97", "U+1A98", "U+1A99">>,
     <<"U+1B50", "U+1B51", "U+1B52", "U+1B53", "U+1B54",
       "U+1B55", "U+1B56", "U+1B57", "U+1B58", "U+1B59">>,
     <<"U+1BB0", "U+1BB1", "U+1BB2", "U+1BB3", "U+1BB4",
       "U+1BB5", "U+1BB6", "U+1BB7", "U+1BB8", "U+1BB9">>,
     <<"U+1C40", "U+1C41", "U+1C42", "U+1C43", "U+1C44",
       "U+1C45", "U+1C46", "U+1C47", "U+1C48", "U+1C49">>,
     <<"U+1C50", "U+1C51", "U+1C52", "U+1C53", "U+1C54",
       "U+1C55", "U+1C56", "U+1C57", "U+1C58", "U+1C59">>,
     <<"U+A620", "U+A621", "U+A622", "U+A623", "U+A624",
       "U+A625", "U+A626", "U+A627", "U+A628", "U+A629">>,
     <<"U+A8D0", "U+A8D1", "U+A8D2", "U+A8D3", "U+A8D4",
       "U+A8D5", "U+A8D6", "U+A8D7", "U+A8D8", "U+A8D9">>,
     <<"U+A900", "U+A901", "U+A902", "U+A903", "U+A904",
       "U+A905", "U+A906", "U+A907", "U+A908", "U+A909">>,
     <<"U+A9D0", "U+A9D1", "U+A9D2", "U+A9D3", "U+A9D4",
       "U+A9D5", "U+A9D6", "U+A9D7", "U+A9D8", "U+A9D9">>,
     <<"U+A9F0", "U+A9F1", "U+A9F2", "U+A9F3", "U+A9F4",
       "U+A9F5", "U+A9F6", "U+A9F7", "U+A9F8", "U+A9F9">>,
     <<"U+AA50", "U+AA51", "U+AA52", "U+AA53", "U+AA54",
       "U+AA55", "U+AA56", "U+AA57", "U+AA58", "U+AA59">>,
     <<"U+ABF0", "U+ABF1", "U+ABF2", "U+ABF3", "U+ABF4",
       "U+ABF5", "U+ABF6", "U+ABF7", "U+ABF8", "U+ABF9">>,
     <<"U+FF10", "U+FF11", "U+FF12", "U+FF13", "U+FF14",
       "U+FF15", "U+FF16", "U+FF17", "U+FF18", "U+FF19">>,
     <<"U+104A0", "U+104A1", "U+104A2", "U+104A3", "U+104A4",
       "U+104A5", "U+104A6", "U+104A7", "U+104A8", "U+104A9">>,
     <<"U+10D30", "U+10D31", "U+10D32", "U+10D33", "U+10D34",
       "U+10D35", "U+10D36", "U+10D37", "U+10D38", "U+10D39">>,
     <<"U+11066", "U+11067", "U+11068", "U+11069", "U+1106A",
       "U+1106B", "U+1106C", "U+1106D", "U+1106E", "U+1106F">>,
     <<"U+110F0", "U+110F1", "U+110F2", "U+110F3", "U+110F4",
       "U+110F5", "U+110F6", "U+110F7", "U+110F8", "U+110F9">>,
     <<"U+11136", "U+11137", "U+11138", "U+11139", "U+1113A",
       "U+1113B", "U+1113C", "U+1113D", "U+1113E", "U+1113F">>,
     <<"U+111D0", "U+111D1", "U+111D2", "U+111D3", "U+111D4",
       "U+111D5", "U+111D6", "U+111D7", "U+111D8", "U+111D9">>,
     <<"U+112F0", "U+112F1", "U+112F2", "U+112F3", "U+112F4",
       "U+112F5", "U+112F6", "U+112F7", "U+112F8", "U+112F9">>,
     <<"U+11450", "U+11451", "U+11452", "U+11453", "U+11454",
       "U+11455", "U+11456", "U+11457", "U+11458", "U+11459">>,
     <<"U+114D0", "U+114D1", "U+114D2", "U+114D3", "U+114D4",
       "U+114D5", "U+114D6", "U+114D7", "U+114D8", "U+114D9">>,
     <<"U+11650", "U+11651", "U+11652", "U+11653", "U+11654",
       "U+11655", "U+11656", "U+11657", "U+11658", "U+11659">>,
     <<"U+116C0", "U+116C1", "U+116C2", "U+116C3", "U+116C4",
       "U+116C5", "U+116C6", "U+116C7", "U+116C8", "U+116C9">>,
     <<"U+11730", "U+11731", "U+11732", "U+11733", "U+11734",
       "U+11735", "U+11736", "U+11737", "U+11738", "U+11739">>,
     <<"U+118E0", "U+118E1", "U+118E2", "U+118E3", "U+118E4",
       "U+118E5", "U+118E6", "U+118E7", "U+118E8", "U+118E9">>,
     <<"U+11950", "U+11951", "U+11952", "U+11953", "U+11954",
       "U+11955", "U+11956", "U+11957", "U+11958", "U+11959">>,
     <<"U+11C50", "U+11C51", "U+11C52", "U+11C53", "U+11C54",
       "U+11C55", "U+11C56", "U+11C57", "U+11C58", "U+11C59">>,
     <<"U+11D50", "U+11D51", "U+11D52", "U+11D53", "U+11D54",
       "U+11D55", "U+11D56", "U+11D57", "U+11D58", "U+11D59">>,
     <<"U+11DA0", "U+11DA1", "U+11DA2", "U+11DA3", "U+11DA4",
       "U+11DA5", "U+11DA6", "U+11DA7", "U+11DA8", "U+11DA9">>,
     <<"U+16A60", "U+16A61", "U+16A62", "U+16A63", "U+16A64",
       "U+16A65", "U+16A66", "U+16A67", "U+16A68", "U+16A69">>,
     <<"U+16AC0", "U+16AC1", "U+16AC2", "U+16AC3", "U+16AC4",
       "U+16AC5", "U+16AC6", "U+16AC7", "U+16AC8", "U+16AC9">>,
     <<"U+16B50", "U+16B51", "U+16B52", "U+16B53", "U+16B54",
       "U+16B55", "U+16B56", "U+16B57", "U+16B58", "U+16B59">>,
     <<"U+1D7CE", "U+1D7CF", "U+1D7D0", "U+1D7D1", "U+1D7D2",
       "U+1D7D3", "U+1D7D4", "U+1D7D5", "U+1D7D6", "U+1D7D7">>,
     <<"U+1D7D8", "U+1D7D9", "U+1D7DA", "U+1D7DB", "U+1D7DC",
       "U+1D7DD", "U+1D7DE", "U+1D7DF", "U+1D7E0", "U+1D7E1">>,
     <<"U+1D7E2", "U+1D7E3", "U+1D7E4", "U+1D7E5", "U+1D7E6",
       "U+1D7E7", "U+1D7E8", "U+1D7E9", "U+1D7EA", "U+1D7EB">>,
     <<"U+1D7EC", "U+1D7ED", "U+1D7EE", "U+1D7EF", "U+1D7F0",
       "U+1D7F1", "U+1D7F2", "U+1D7F3", "U+1D7F4", "U+1D7F5">>,
     <<"U+1D7F6", "U+1D7F7", "U+1D7F8", "U+1D7F9", "U+1D7FA",
       "U+1D7FB", "U+1D7FC", "U+1D7FD", "U+1D7FE", "U+1D7FF">>,
     <<"U+1E140", "U+1E141", "U+1E142", "U+1E143", "U+1E144",
       "U+1E145", "U+1E146", "U+1E147", "U+1E148", "U+1E149">>,
     <<"U+1E2F0", "U+1E2F1", "U+1E2F2", "U+1E2F3", "U+1E2F4",
       "U+1E2F5", "U+1E2F6", "U+1E2F7", "U+1E2F8", "U+1E2F9">>,
     <<"U+1E950", "U+1E951", "U+1E952", "U+1E953", "U+1E954",
       "U+1E955", "U+1E956", "U+1E957", "U+1E958", "U+1E959">>,
     <<"U+1FBF0", "U+1FBF1", "U+1FBF2", "U+1FBF3", "U+1FBF4",
       "U+1FBF5", "U+1FBF6", "U+1FBF7", "U+1FBF8", "U+1FBF9">>
    >>

\* the characters \d matches
Digits == AsciiDigits \cup {DigitRows[r][k] : r \in DOMAIN DigitRows, k \in 1..10}

\* int() of one digit
DigitVal(c) ==
    CASE c = "0" -> 0 [] c = "1" -> 1 [] c = "2" -> 2 [] c = "3" -> 3
      [] c = "4" -> 4 [] c = "5" -> 5 [] c = "6" -> 6 [] c = "7" -> 7
      [] c = "8" -> 8 [] c = "9" -> 9
      [] OTHER -> (CHOOSE k \in 1..10 :
                      \E r \in DOMAIN DigitRows : DigitRows[r][k] = c) - 1

AllDigits(s) == \A i \in 1..Len(s) : s[i] \in Digits

RECURSIVE NumVal(_)
NumVal(s) ==
    IF s = <<>> THEN 0 ELSE 10 * NumVal(SubSeq(s, 1, Len(s) - 1)) + DigitVal(s[Len(s)])

\* a field of two characters, the first among firsts, the second among seconds
TwoChars(f, firsts, seconds) == Len(f) = 2 /\ f[1] \in firsts /\ f[2] \in seconds

\* a field of one character among chars
OneChar(f, chars) == Len(f) = 1 /\ f[1] \in chars

\* %m: 1[0-2]|0[1-9]|[1-9]
MonthField(f) ==
    \/ TwoChars(f, {"1"}, {"0", "1", "2"})
    \/ TwoChars(f, {"0"}, AsciiDigits \ {"0"})
    \/ OneChar(f, AsciiDigits \ {"0"})

\* %d: 3[0-1]|[1-2]\d|0[1-9]|[1-9]| [1-9]
DayField(f) ==
    \/ TwoChars(f, {"3"}, {"0", "1"})
    \/ TwoChars(f, {"1", "2"}, Digits)
    \/ TwoChars(f, {"0"}, AsciiDigits \ {"0"})
    \/ OneChar(f, AsciiDigits \ {"0"})
    \/ TwoChars(f, {" "}, AsciiDigits \ {"0"})

\* %H: 2[0-3]|[0-1]\d|\d
HourField(f) ==
    \/ TwoChars(f, {"2"}, {"0", "1", "2", "3"})
    \/ TwoChars(f, {"0", "1"}, Digits)
    \/ OneChar(f, Digits)

\* %M: [0-5]\d|\d
MinuteField(f) ==
    \/ TwoChars(f, {"0", "1", "2", "3", "4", "5"}, Digits)
    \/ OneChar(f, Digits)

\* %S: 6[0-1]|[0-5]\d|\d
SecondField(f) ==
    \/ TwoChars(f, {"6"}, {"0", "1"})
    \/ MinuteField(f)

DayVal(f) == IF f[1] = " " THEN DigitVal(f[2]) ELSE NumVal(f)

IsLeap(y) == (y % 4 = 0 /\ y % 100 # 0) \/ y % 400 = 0

DaysInMonth(y, m) ==
    IF m = 2 THEN (IF IsLeap(y) THEN 29 ELSE 28)
    ELSE IF m \in {4, 6, 9, 11} THEN 30 ELSE 31

\* the ways the format's regular expression splits s: the widths of
\* %m, %d, the white space, %H, %M and %S
StrptimeSplits(s) ==
    {w \in (1..2) \X (1..2) \X (1..Len(s)) \X (1..2) \X (1..2) \X (1..2) :
        LET pm == 6
            pd == pm + w[1] + 1
            pw == pd + w[2]
            ph == pw + w[3]
            pi == ph + w[4] + 1
            ps == pi + w[5] + 1
        IN  /\ ps + w[6] - 1 = Len(s)
            /\ AllDigits(SubSeq(s, 1, 4))
            /\ s[5] = "-"
            /\ MonthField(SubSeq(s, pm, pm + w[1] - 1))
            /\ s[pm + w[1]] = "-"
            /\ DayField(SubSeq(s, pd, pd + w[2] - 1))
            /\ \A k \in pw..(ph - 1) : s[k] \in Whitespace
            /\ HourField(SubSeq(s, ph, ph + w[4] - 1))
            /\ s[ph + w[4]] = ":"
            /\ MinuteField(SubSeq(s, pi, pi + w[5] - 1))
            /\ s[pi + w[5]] = ":"
            /\ SecondField(SubSeq(s, ps, ps + w[6] - 1))}

StrptimeFields(s, w) ==
    LET pm == 6
        pd == pm + w[1] + 1
        ph == pd + w[2] + w[3]
        pi == ph + w[4] + 1
        ps == pi + w[5] + 1
    IN  [year |-> NumVal(SubSeq(s, 1, 4)),
         month |-> NumVal(SubSeq(s, pm, pm + w[1] - 1)),
         day |-> DayVal(SubSeq(s, pd, pd + w[2] - 1)),
         hour |-> NumVal(SubSeq(s, ph, ph + w[4] - 1)),
         minute |-> NumVal(SubSeq(s, pi, pi + w[5] - 1)),
         second |-> NumVal(SubSeq(s, ps, ps + w[6] - 1))]

\* [exc, val]: TypeError for a non-string, ValueError for a string that does
\* not match the format or names no date, else the datetime
Strptime(v) ==
    IF ~IsStr(v) THEN [exc |-> "TypeError", val |-> None]
    ELSE LET splits == StrptimeSplits(v.s) IN
         IF splits = {} THEN [exc |-> "ValueError", val |-> None]
         ELSE LET dt == StrptimeFields(v.s, CHOOSE w \in splits : TRUE) IN
              IF /\ dt.year >= 1
                 /\ dt.day <= DaysInMonth(dt.year, dt.month)
                 /\ dt.second <= 59
              THEN [exc |-> "none", val |-> dt]
              ELSE [exc |-> "ValueError", val |-> None]

(***************************************************************************)
(* MalShareETLConnector._calculate_completeness                            *)
(***************************************************************************)
expected_fields == <<"MD5", "SHA1", "SHA256", "F_TYPE", "ADDED">>

\* a score that counts every expected field that is present, empty or not
MutCompletenessCountsPresent(data) ==
    IF ~IsDict(data) THEN [num |-> 0, den |-> Len(expected_fields)]
    ELSE [num |-> Cardinality({i \in 1..Len(expected_fields) :
                                  expected_fields[i] \in DOMAIN data.d}),
          den |-> Len(expected_fields)]

calculate_completeness(data) ==
    IF ~IsDict(data) THEN [num |-> 0, den |-> Len(expected_fields)]
    ELSE LET present_fields ==
                 Cardinality({i \in 1..Len(expected_fields) :
                     /\ expected_fields[i] \in DOMAIN data.d
                     /\ Truthy(data.d[expected_fields[i]])})
         IN  [num |-> present_fields, den |-> Len(expected_fields)]

(***************************************************************************)
(* MalShareETLConnector.transform_data                                     *)
(***************************************************************************)
field_mapping ==
    [MD5 |-> "md5", SHA1 |-> "sha1", SHA256 |-> "sha256_confirmed",
     SSDEEP |-> "ssdeep", F_TYPE |-> "file_type", SOURCES |-> "sources",
     ADDED |-> "date_added"]

\* the std_field -> value entries copied from raw_data
MappedFields(raw) ==
    LET present == {f \in DOMAIN field_mapping : f \in DOMAIN raw.d}
        std == {field_mapping[f] : f \in present}
    IN  [k \in std |-> raw.d[CHOOSE f \in present : field_mapping[f] = k]]

\* classification of the lower-cased F_TYPE string
SampleType(file_type) ==
    IF Contains(file_type, <<"p", "e", "3", "2">>)
       \/ Contains(file_type, <<"e", "x", "e", "c", "u", "t", "a", "b", "l", "e">>)
    THEN "executable"
    ELSE IF Contains(file_type, <<"p", "d", "f">>) THEN "document"
    ELSE IF Contains(file_type, <<"z", "i", "p">>)
            \/ Contains(file_type, <<"a", "r", "c", "h", "i", "v", "e">>)
    THEN "archive"
    ELSE "unknown"

\* the exception transform_data raises on raw_data, "none" if it returns
TransformExc(raw_data) ==
    IF ~IsDict(raw_data) THEN "none"
    ELSE IF "ADDED" \in DOMAIN raw_data.d /\ Strptime(raw_data.d["ADDED"]).exc = "TypeError"
    THEN "TypeError"
    ELSE IF "F_TYPE" \in DOMAIN raw_data.d /\ ~IsStr(raw_data.d["F_TYPE"])
    THEN "AttributeError"
    ELSE "none"

\* the record transform_data returns when it raises nothing
TransformRecord(raw_data, sample_hash, now) ==
    LET metadata ==
            [sha256 |-> JStr(sample_hash),
             ingestion_timestamp |-> now,
             source |-> "malshare_api",
             connector_version |-> "1.0",
             raw_response |-> raw_data]
        quality == [data_completeness |-> calculate_completeness(raw_data)]
    IN  IF ~IsDict(raw_data) THEN metadata @@ quality
        ELSE LET parsed ==
                     IF "ADDED" \in DOMAIN raw_data.d
                        /\ Strptime(raw_data.d["ADDED"]).exc = "none"
                     THEN [date_added_parsed |-> Strptime(raw_data.d["ADDED"]).val]
                     ELSE EmptyDict
                 file_type ==
                     IF "F_TYPE" \in DOMAIN raw_data.d
                     THEN Lower(raw_data.d["F_TYPE"].s)
                     ELSE <<>>
             IN  metadata @@ MappedFields(raw_data) @@ parsed
                 @@ [sample_type |-> SampleType(file_type)] @@ quality

transform_data(raw_data, sample_hash, now) ==
    IF TransformExc(raw_data) # "none"
    THEN [exc |-> TransformExc(raw_data), val |-> None]
    ELSE [exc |-> "none", val |-> TransformRecord(raw_data, sample_hash, now)]

(***************************************************************************)
(* The document store: pymongo Collection.replace_one(filter, doc,         *)
(* upsert=True) on a collection with a unique index on sha256.             *)
(***************************************************************************)
Matching(coll, key) == {d \in coll : d.sha256 = key}

\* replace_one that inserts without looking for the document to replace
MutReplaceOneInsert(coll, key, doc) ==
    [coll |-> coll \cup {doc}, upserted |-> TRUE, modified_count |-> 0]

\* [coll, upserted, modified_count]
replace_one(coll, key, doc) ==
    IF Matching(coll, key) = {}
    THEN [coll |-> coll \cup {doc}, upserted |-> TRUE, modified_count |-> 0]
    ELSE LET old == CHOOSE d \in Matching(coll, key) : TRUE IN
         [coll |-> (coll \ {old}) \cup {doc},
          upserted |-> FALSE,
          modified_count |-> IF old = doc THEN 0 ELSE 1]

(***************************************************************************)
(* MalShareETLConnector.load_data: store_raises says whether replace_one   *)
(* raises, and landed whether the store had applied the write when it      *)
(* raised (a lost acknowledgement).  [ret, coll, outcome]                  *)
(***************************************************************************)
\* the collection after a replace_one that raised
RaisedWrite(coll, doc, landed) ==
    IF landed THEN replace_one(coll, doc.sha256, doc).coll ELSE coll

\* load_data that reports a replacement without change as a failure
MutLoadDataUnchangedFails(coll, doc, store_raises, landed) ==
    IF store_raises
    THEN [ret |-> FALSE, coll |-> RaisedWrite(coll, doc, landed), outcome |-> "error"]
    ELSE LET res == replace_one(coll, doc.sha256, doc) IN
         IF res.upserted \/ res.modified_count > 0
         THEN [ret |-> TRUE, coll |-> res.coll,
               outcome |-> IF res.upserted THEN "inserted" ELSE "replaced"]
         ELSE [ret |-> FALSE, coll |-> res.coll, outcome |-> "unchanged"]

\* load_data that reports success although the store raised
MutLoadDataErrorSucceeds(coll, doc, store_raises, landed) ==
    IF store_raises
    THEN [ret |-> TRUE, coll |-> RaisedWrite(coll, doc, landed), outcome |-> "error"]
    ELSE LET res == replace_one(coll, doc.sha256, doc) IN
         [ret |-> TRUE, coll |-> res.coll,
          outcome |-> IF res.upserted THEN "inserted"
                      ELSE IF res.modified_count > 0 THEN "replaced" ELSE "unchanged"]

load_data(coll, doc, store_raises, landed) ==
    IF store_raises
    THEN [ret |-> FALSE, coll |-> RaisedWrite(coll, doc, landed), outcome |-> "error"]
    ELSE LET result == replace_one(coll, doc.sha256, doc) IN
         IF result.upserted \/ result.modified_count > 0
         THEN [ret |-> TRUE, coll |-> result.coll,
               outcome |-> IF result.upserted THEN "inserted" ELSE "replaced"]
         ELSE [ret |-> TRUE, coll |-> result.coll, outcome |-> "unchanged"]

(***************************************************************************)
(* What the remote API can answer to one requests.get call.                *)
(***************************************************************************)
Str1(c) == JStr(<<c>>)

FullBody ==
    JDict([MD5 |-> Str1("m"), SHA1 |-> Str1("s"), SHA256 |-> Str1("a"),
           SSDEEP |-> Str1("3"),
           F_TYPE |-> JStr(<<"P", "E", "3", "2", " ", "e", "x", "e">>),
           SOURCES |-> JList(<<Str1("v")>>),
           ADDED |-> JStr(<<"2", "0", "2", "4", "-", "0", "1", "-", "1", "5", " ",
                            "1", "0", ":", "3", "0", ":", "0", "0">>)])

BadDateBody ==
    JDict([MD5 |-> Str1("m"), F_TYPE |-> JStr(<<"P", "D", "F">>), ADDED |-> Str1("x")])

NullTypeBody == JDict([MD5 |-> Str1("m"), F_TYPE |-> JNull])

IntDateBody == JDict([SHA256 |-> Str1("a"), ADDED |-> JInt(7)])

ListBody == JList(<<Str1("v")>>)

DataBody == JDict([data |-> JList(<<Str1("a"), JStr(<<" ", "b">>)>>)])

BadDataBody == JDict([data |-> JList(<<Str1("a"), JInt(7)>>)])

\* JSON bodies of a details answer
DetailsBodies ==
    {FullBody, BadDateBody, NullTypeBody, IntDateBody, ListBody, JDict(EmptyDict)}

\* JSON bodies of a getlist answer
ListBodies == {DataBody, BadDataBody, ListBody, JDict(EmptyDict), FullBody}

\* text/plain bodies of a getlist answer
ListTexts ==
    {<<>>,
     <<"\n">>,
     <<"a">>,
     <<"a", "\r", "\n", "b">>,
     <<"a", "\n", "a">>,
     <<" ", "b", " ", "\n", "\n", "a", "\n">>}

\* text/plain bodies
TextBodies(action) == IF action = "getlist" THEN ListTexts ELSE {<<"a">>}

JsonBodies(action) == IF action = "getlist" THEN ListBodies ELSE DetailsBodies

Responses(action) ==
    {[kind |-> "429", body |-> None], [kind |-> "error", body |-> None]}
    \cup {[kind |-> "json", body |-> b] : b \in JsonBodies(action)}
    \cup {[kind |-> "text", body |-> JStr(b)] : b \in TextBodies(action)}

\* the sequences over S of length at most n
RECURSIVE SeqsUpTo(_, _)
SeqsUpTo(S, n) ==
    IF n = 0 THEN {<<>>}
    ELSE LET shorter == SeqsUpTo(S, n - 1) IN
         shorter \cup {Append(q, x) : q \in shorter, x \in S}

\* lines of a getlist answer
LineTexts ==
    {<<>>, <<" ">>, <<"a">>, <<"\t", "a">>, <<"b", "\r">>, <<"a", " ", "b">>}

\* JSON bodies of a getlist answer that carry a list of lines
LineBodies ==
    {JDict([data |-> JList(ls)]) : ls \in SeqsUpTo({JStr(t) : t \in LineTexts}, MaxLines)}

\* the answers to the getlist request of extract_sample_list called on its
\* own
FnListResponses ==
    {[kind |-> "429", body |-> None], [kind |-> "error", body |-> None]}
    \cup {[kind |-> "json", body |-> b] : b \in LineBodies \cup {JDict(EmptyDict), FullBody}}
    \cup {[kind |-> "text", body |-> JStr(b)] : b \in ListTexts}

(***************************************************************************)
(* MalShareETLConnector._make_api_request                                  *)
(***************************************************************************)
\* for attempt in range(self.max_retries)
HasAttempt(a) == a < max_retries

\* a wait that does not grow with the attempt
MutBackoffConstant(a) == rate_limit_delay

\* self.rate_limit_delay * (2 ** attempt)
Backoff(a) == rate_limit_delay * (2 ^ a)

\* {'data': response.text.strip().split('\n')}
TextResponse(text) ==
    LET lines == Split(Strip(text), "\n") IN
    JDict([data |-> JList([i \in 1..Len(lines) |-> JStr(lines[i])])])

\* AttemptStep with a request error that is not retried
MutAttemptStepNoRetry(a, resp) ==
    CASE resp.kind = "429" ->
            [returns |-> FALSE, value |-> None, slept |-> <<Backoff(a)>>]
      [] resp.kind = "error" ->
            [returns |-> TRUE, value |-> None, slept |-> <<>>]
      [] resp.kind = "json" ->
            [returns |-> TRUE, value |-> resp.body, slept |-> <<>>]
      [] resp.kind = "text" ->
            [returns |-> TRUE, value |-> TextResponse(resp.body.s), slept |-> <<>>]

\* AttemptStep with a 429 that is retried at once, without the sleep
MutAttemptStepNoSleep(a, resp) ==
    CASE resp.kind = "429" ->
            [returns |-> FALSE, value |-> None, slept |-> <<>>]
      [] resp.kind = "error" ->
            IF a = max_retries - 1
            THEN [returns |-> TRUE, value |-> None, slept |-> <<>>]
            ELSE [returns |-> FALSE, value |-> None, slept |-> <<Backoff(a)>>]
      [] resp.kind = "json" ->
            [returns |-> TRUE, value |-> resp.body, slept |-> <<>>]
      [] resp.kind = "text" ->
            [returns |-> TRUE, value |-> TextResponse(resp.body.s), slept |-> <<>>]

\* the body of the loop for one answer: whether the call returns, what it
\* returns and how long it sleeps
AttemptStep(a, resp) ==
    CASE resp.kind = "429" ->
            [returns |-> FALSE, value |-> None, slept |-> <<Backoff(a)>>]
      [] resp.kind = "error" ->
            IF a = max_retries - 1
            THEN [returns |-> TRUE, value |-> None, slept |-> <<>>]
            ELSE [returns |-> FALSE, value |-> None, slept |-> <<Backoff(a)>>]
      [] resp.kind = "json" ->
            [returns |-> TRUE, value |-> resp.body, slept |-> <<>>]
      [] resp.kind = "text" ->
            [returns |-> TRUE, value |-> TextResponse(resp.body.s), slept |-> <<>>]

(***************************************************************************)
(* MalShareETLConnector.extract_sample_list, on the executor's answer      *)
(***************************************************************************)
\* 'data' in response
HasData(response) ==
    IF IsDict(response) THEN "data" \in DOMAIN response.d
    ELSE \E i \in 1..Len(response.l) : response.l[i] = JStr(<<"d", "a", "t", "a">>)

\* [s.strip() for s in samples if s.strip()]
RECURSIVE StripNonEmpty(_)
StripNonEmpty(samples) ==
    IF samples = <<>> THEN <<>>
    ELSE IF Strip(Head(samples).s) # <<>>
    THEN <<Strip(Head(samples).s)>> \o StripNonEmpty(Tail(samples))
    ELSE StripNonEmpty(Tail(samples))

\* seq[:limit] for limit >= 0
Truncate(seq, limit) == SubSeq(seq, 1, IF limit < Len(seq) THEN limit ELSE Len(seq))

\* extract_sample_list that cuts to limit before it drops the empty lines
MutExtractListCutsFirst(response, limit) ==
    IF ~Truthy(response) \/ ~HasData(response) THEN [exc |-> "none", val |-> <<>>]
    ELSE LET samples == response.d["data"].l IN
         IF \E i \in 1..Len(samples) : ~IsStr(samples[i])
         THEN [exc |-> "AttributeError", val |-> <<>>]
         ELSE [exc |-> "none", val |-> StripNonEmpty(Truncate(samples, limit))]

\* [exc, val]
extract_sample_list(response, limit) ==
    IF ~Truthy(response) \/ ~HasData(response) THEN [exc |-> "none", val |-> <<>>]
    ELSE LET samples == response.d["data"].l IN
         IF \E i \in 1..Len(samples) : ~IsStr(samples[i])
         THEN [exc |-> "AttributeError", val |-> <<>>]
         ELSE [exc |-> "none", val |-> Truncate(StripNonEmpty(samples), limit)]

(***************************************************************************)
(* MalShareETLConnector.extract_sample_details, on the executor's answer   *)
(***************************************************************************)
extract_sample_details(response) == IF ~Truthy(response) THEN None ELSE response

(***************************************************************************)
(* MalShareETLConnector.run_etl_pipeline                                   *)
(***************************************************************************)
config == <<max_retries, rate_limit_delay, sample_limit>>

\* what only load_data calls change
loads == <<collection, load_arg, load_outcome, load_ret, prev_load, coll_before,
           last_loaded, last_applied, ops_after_close>>

\* what only a method applied on its own changes
probe == <<fn, fn_args, fn_ret>>

NoCall == [action |-> "none", hash |-> <<>>]

NoResponse == [kind |-> "none", body |-> None]

NoSummary ==
    [reached |-> FALSE, total |-> 0, successful |-> 0, failed |-> 0,
     rate |-> [num |-> 0, den |-> 1]]

NoLoad == [data |-> None, outcome |-> "none", ret |-> FALSE]

NotThrown == [at |-> 0, exc |-> "none"]

NotCaught == [exc |-> "none", at |-> "none"]

\* the primary keys of the model
Keys == {JStr(<<"a">>), JStr(<<"b">>)}

\* everything but the configuration and the position
Blank ==
    /\ call = NoCall
    /\ attempt = 0
    /\ sample_hashes = <<>>
    /\ idx = 0
    /\ successful_loads = 0
    /\ failed_loads = 0
    /\ transformed_data = None
    /\ collection = {}
    /\ closed = 0
    /\ clock = 0
    /\ exc = "none"
    /\ summary = NoSummary
    /\ requests = 0
    /\ outcomes = <<>>
    /\ waits = <<>>
    /\ last_resp = NoResponse
    /\ api_result = None
    /\ first_try = TRUE
    /\ details_calls = <<>>
    /\ transforms = <<>>
    /\ store_writes = <<>>
    /\ fate = <<>>
    /\ thrown = NotThrown
    /\ sleeps = 0
    /\ load_arg = None
    /\ load_outcome = "none"
    /\ load_ret = FALSE
    /\ prev_load = NoLoad
    /\ coll_before = {}
    /\ last_loaded = [k \in Keys |-> None]
    /\ last_applied = [k \in Keys |-> None]
    /\ details = None
    /\ stats = None
    /\ ops_after_close = 0
    /\ caught = NotCaught
    /\ fn = "none"
    /\ fn_args = None
    /\ fn_ret = None

Init ==
    /\ max_retries \in 0..MaxRetries
    /\ rate_limit_delay \in Delays
    /\ sample_limit \in 0..MaxLimit
    /\ pc = "start"
    /\ Blank

\* what can leave connector = MalShareETLConnector() and the reading of
\* SAMPLE_LIMIT: a ValueError (no API key, a setting that is no number), the
\* ConnectionFailure _init_mongo_connection logs and raises again, and what
\* else MongoClient(uri), the ping and create_index raise, which
\* _init_mongo_connection does not catch
StartFailures ==
    {"ValueError", "ConnectionFailure", "OperationFailure", "PyMongoError"}

\* main up to the call of run_etl_pipeline; a failure enters main's
\* except Exception
Construct ==
    /\ pc = "start"
    /\ \/ pc' = "idle" /\ UNCHANGED caught
       \/ \E e \in StartFailures :
            /\ pc' = "failed"
            /\ caught' = [exc |-> e, at |-> "start"]
    /\ UNCHANGED <<config, loads, call, attempt, sample_hashes, idx,
                   successful_loads, failed_loads, transformed_data, closed,
                   clock, exc, summary, requests, outcomes, waits, last_resp,
                   api_result, first_try, details_calls, transforms,
                   store_writes, fate, thrown, sleeps, details, stats, probe>>

\* the emptiness test left out
MutNoSamplesNever(samples) == FALSE

\* if not sample_hashes
NoSamples(samples) == samples = <<>>

\* a finally block that does not close the connection
MutFinallyNoClose(n) == n

\* the finally block: self.mongo_client.close()
Finally(n) == n + 1

\* an except block that swallows the exception
MutReraiseSwallows(e) == "none"

\* except Exception as e: ... raise
Reraise(e) == e

\* entering self._make_api_request(endpoint, params)
StartCall(action, hash) ==
    /\ call' = [action |-> action, hash |-> hash]
    /\ attempt' = 0
    /\ outcomes' = <<>>
    /\ waits' = <<>>
    /\ last_resp' = NoResponse
    /\ api_result' = None

\* main: connector.run_etl_pipeline(sample_limit), up to the first request
RunStart ==
    /\ pc = "idle"
    /\ pc' = "request"
    /\ StartCall("getlist", <<>>)
    /\ UNCHANGED <<config, loads, sample_hashes, idx, successful_loads,
                   failed_loads, transformed_data, closed, clock, exc, summary,
                   requests, first_try, details_calls, transforms,
                   store_writes, fate, thrown, sleeps, details, stats, caught, probe>>

\* run_etl_pipeline after extract_sample_list got r from the executor
ListReturn(r) ==
    LET ex == extract_sample_list(r, sample_limit) IN
    /\ IF ex.exc # "none"
       THEN /\ pc' = "cleanup"
            /\ thrown' = [at |-> 0, exc |-> ex.exc]
            /\ exc' = Reraise(ex.exc)
            /\ UNCHANGED <<closed, sample_hashes, idx, successful_loads, failed_loads,
                           details_calls, transforms, store_writes, fate>>
       ELSE IF NoSamples(ex.val)
       THEN /\ pc' = "cleanup"
            /\ sample_hashes' = ex.val
            /\ UNCHANGED <<closed, exc, thrown, idx, successful_loads, failed_loads,
                           details_calls, transforms, store_writes, fate>>
       ELSE /\ pc' = "loop"
            /\ sample_hashes' = ex.val
            /\ successful_loads' = 0
            /\ failed_loads' = 0
            /\ idx' = 1
            /\ details_calls' = [i \in 1..Len(ex.val) |-> 0]
            /\ transforms' = [i \in 1..Len(ex.val) |-> 0]
            /\ store_writes' = [i \in 1..Len(ex.val) |-> 0]
            /\ fate' = [i \in 1..Len(ex.val) |-> "pending"]
            /\ UNCHANGED <<exc, thrown, closed>>
    /\ UNCHANGED <<transformed_data, clock, summary, sleeps, details>>

\* run_etl_pipeline after extract_sample_details got r from the executor:
\* the skip of a sample without data, or transform_data
DetailsReturn(r) ==
    LET raw_data == extract_sample_details(r) IN
    /\ details' = raw_data
    /\ IF ~Truthy(raw_data)
       THEN /\ failed_loads' = failed_loads + 1
            /\ fate' = [fate EXCEPT ![idx] = "no_data"]
            /\ idx' = idx + 1
            /\ pc' = "loop"
            /\ UNCHANGED <<transformed_data, clock, exc, thrown, closed, transforms>>
       ELSE \E now \in clock..MaxClock :
            LET tr == transform_data(raw_data, sample_hashes[idx], now) IN
            /\ clock' = now
            /\ transforms' = [transforms EXCEPT ![idx] = @ + 1]
            /\ IF tr.exc # "none"
               THEN /\ pc' = "cleanup"
                    /\ thrown' = [at |-> idx, exc |-> tr.exc]
                    /\ exc' = Reraise(tr.exc)
                    /\ UNCHANGED <<closed, transformed_data>>
               ELSE /\ pc' = "load"
                    /\ transformed_data' = tr.val
                    /\ UNCHANGED <<exc, thrown, closed>>
            /\ UNCHANGED <<failed_loads, idx, fate>>
    /\ UNCHANGED <<sample_hashes, successful_loads, summary, details_calls,
                   store_writes, sleeps>>

\* extract_sample_list called on its own, after the executor returned r
FnListReturn(r) ==
    /\ fn_ret' = extract_sample_list(r, fn_args.limit)
    /\ pc' = "fn"
    /\ UNCHANGED <<sample_hashes, idx, successful_loads, failed_loads,
                   transformed_data, closed, clock, exc, summary,
                   details_calls, transforms, store_writes, fate, thrown,
                   sleeps, details>>

\* _make_api_request called on its own returns r
FnCallReturn(r) ==
    /\ fn_ret' = [exc |-> "none", val |-> r]
    /\ pc' = "fn"
    /\ UNCHANGED <<sample_hashes, idx, successful_loads, failed_loads,
                   transformed_data, closed, clock, exc, summary,
                   details_calls, transforms, store_writes, fate, thrown,
                   sleeps, details>>

\* the caller's code that runs when _make_api_request returns r
Return(r) ==
    /\ api_result' = r
    /\ IF fn = "extract_sample_list" THEN FnListReturn(r)
       ELSE IF fn = "_make_api_request" THEN FnCallReturn(r)
       ELSE IF call.action = "getlist" THEN ListReturn(r) /\ UNCHANGED fn_ret
       ELSE DetailsReturn(r) /\ UNCHANGED fn_ret

\* the answers requests.get can get
Answers ==
    IF fn = "extract_sample_list" THEN FnListResponses
    ELSE Responses(call.action)

\* one pass of the retry loop: one requests.get and what follows it
ReqAttempt ==
    /\ pc = "request"
    /\ HasAttempt(attempt)
    /\ requests' = requests + 1
    /\ \E resp \in Answers :
        LET step == AttemptStep(attempt, resp) IN
        /\ last_resp' = resp
        /\ outcomes' = Append(outcomes, resp.kind)
        /\ waits' = waits \o step.slept
        /\ first_try' = (first_try /\ resp.kind \in {"json", "text"})
        /\ IF step.returns
           THEN /\ Return(step.value)
                /\ UNCHANGED attempt
           ELSE /\ attempt' = attempt + 1
                /\ UNCHANGED <<pc, api_result, sample_hashes, idx, successful_loads,
                               failed_loads, transformed_data, closed, clock, exc,
                               summary, details_calls, transforms, store_writes,
                               fate, thrown, sleeps, details, fn_ret>>
    /\ UNCHANGED <<config, loads, call, stats, caught, fn, fn_args>>

\* the retry loop ends without a return: return None
ReqExhausted ==
    /\ pc = "request"
    /\ ~HasAttempt(attempt)
    /\ Return(None)
    /\ UNCHANGED <<config, loads, call, attempt, requests, outcomes, waits,
                   last_resp, first_try, stats, caught, fn, fn_args>>

\* the way out of run_etl_pipeline: the except block when an exception is
\* under way (it logs and raises again), then the finally block, which
\* closes the connection
Cleanup ==
    /\ pc = "cleanup"
    /\ closed' = Finally(closed)
    /\ pc' = IF exc = "none" THEN "returned" ELSE "raised"
    /\ UNCHANGED <<config, loads, call, attempt, sample_hashes, idx,
                   successful_loads, failed_loads, transformed_data, clock,
                   exc, summary, requests, outcomes, waits, last_resp,
                   api_result, first_try, details_calls, transforms,
                   store_writes, fate, thrown, sleeps, details, stats, caught,
                   probe>>

\* the lines of the pipeline summary, in the order they are logged
SummaryLog ==
    <<"header", "total", "successful", "failed", "rate", "duration", "completed">>

\* what the pipeline summary has logged after its first n lines
Summary(n) ==
    [reached |-> n = Len(SummaryLog),
     total |-> IF n >= 2 THEN Len(sample_hashes) ELSE 0,
     successful |-> IF n >= 3 THEN successful_loads ELSE 0,
     failed |-> IF n >= 4 THEN failed_loads ELSE 0,
     rate |-> IF n >= 5
              THEN [num |-> successful_loads * 100, den |-> Len(sample_hashes)]
              ELSE [num |-> 0, den |-> 1]]

\* the head of the loop over sample_hashes: the next extract_sample_details
\* call, or the pipeline summary and the leaving
LoopHead ==
    /\ pc = "loop"
    /\ IF idx <= Len(sample_hashes)
       THEN /\ pc' = "request"
            /\ StartCall("details", sample_hashes[idx])
            /\ details_calls' = [details_calls EXCEPT ![idx] = @ + 1]
            /\ UNCHANGED <<summary, closed>>
       ELSE /\ pc' = "cleanup"
            /\ summary' = Summary(Len(SummaryLog))
            /\ UNCHANGED <<call, attempt, outcomes, waits, last_resp, api_result,
                           details_calls, closed>>
    /\ UNCHANGED <<config, loads, sample_hashes, idx, successful_loads,
                   failed_loads, transformed_data, clock, exc, requests,
                   first_try, transforms, store_writes, fate, thrown, sleeps,
                   details, stats, caught, probe>>

\* one self.load_data(doc) call whose replace_one raises or not
LoadCall(doc, store_raises, landed) ==
    LET res == load_data(collection, doc, store_raises, landed) IN
    /\ collection' = res.coll
    /\ load_arg' = doc
    /\ load_outcome' = res.outcome
    /\ load_ret' = res.ret
    /\ prev_load' = [data |-> load_arg, outcome |-> load_outcome, ret |-> load_ret]
    /\ coll_before' = collection
    /\ last_loaded' = IF res.ret /\ doc.sha256 \in Keys
                      THEN [last_loaded EXCEPT ![doc.sha256] = doc]
                      ELSE last_loaded
    /\ last_applied' = IF (~store_raises \/ landed) /\ doc.sha256 \in Keys
                       THEN [last_applied EXCEPT ![doc.sha256] =
                                [data |-> doc, ret |-> res.ret]]
                       ELSE last_applied
    /\ ops_after_close' = IF closed > 0 THEN ops_after_close + 1
                          ELSE ops_after_close

\* the load_data call of the load phase of one sample
LoadPhase ==
    /\ \E store_raises \in BOOLEAN, landed \in BOOLEAN :
        /\ landed => store_raises
        /\ LoadCall(transformed_data, store_raises, landed)
        /\ first_try' = (first_try /\ ~store_raises)
    /\ store_writes' = [store_writes EXCEPT ![idx] = @ + 1]

\* the load phase of one sample and the tally, followed by the inter-sample
\* sleep or not
LoadTally(sleep) ==
    /\ LoadPhase
    /\ IF load_ret'
       THEN /\ successful_loads' = successful_loads + 1
            /\ fate' = [fate EXCEPT ![idx] = "loaded"]
            /\ UNCHANGED failed_loads
       ELSE /\ failed_loads' = failed_loads + 1
            /\ fate' = [fate EXCEPT ![idx] = "load_failed"]
            /\ UNCHANGED successful_loads
    /\ sleeps' = IF sleep THEN sleeps + 1 ELSE sleeps
    /\ idx' = idx + 1

\* a load phase that counts a failed load in both counters
MutLoadStepCountsBoth ==
    /\ pc = "load"
    /\ \E store_raises \in BOOLEAN, landed \in BOOLEAN :
        /\ landed => store_raises
        /\ LoadCall(transformed_data, store_raises, landed)
        /\ first_try' = (first_try /\ ~store_raises)
    /\ IF load_ret'
       THEN /\ successful_loads' = successful_loads + 1
            /\ fate' = [fate EXCEPT ![idx] = "loaded"]
            /\ UNCHANGED failed_loads
       ELSE /\ failed_loads' = failed_loads + 1
            /\ fate' = [fate EXCEPT ![idx] = "load_failed"]
            /\ successful_loads' = successful_loads + 1
    /\ store_writes' = [store_writes EXCEPT ![idx] = @ + 1]
    /\ sleeps' = IF idx < Len(sample_hashes) THEN sleeps + 1 ELSE sleeps
    /\ idx' = idx + 1
    /\ pc' = "loop"
    /\ UNCHANGED <<config, call, attempt, sample_hashes, transformed_data, closed,
                   clock, exc, summary, requests, outcomes, waits, last_resp,
                   api_result, details_calls, transforms, thrown, details,
                   stats, caught, probe>>

\* the load phase of one sample, the tally and the inter-sample sleep
LoadStep ==
    /\ pc = "load"
    /\ LoadTally(idx < Len(sample_hashes))
    /\ pc' = "loop"
    /\ UNCHANGED <<config, call, attempt, sample_hashes, transformed_data, closed,
                   clock, exc, summary, requests, outcomes, waits, last_resp,
                   api_result, details_calls, transforms, thrown, details,
                   stats, caught, probe>>

(***************************************************************************)
(* main after run_etl_pipeline: get_collection_stats, or the except block. *)
(***************************************************************************)
\* the store operations of get_collection_stats, in the order it issues them
StatsOps == <<"count_documents", "aggregate", "find_one", "collstats">>

\* the sample_type of a stored document, "null" when it has none
TypeOf(doc) == IF "sample_type" \in DOMAIN doc THEN doc.sample_type ELSE "null"

\* get_collection_stats where the fails_at-th store operation raises
\* (0: none does): the operations issued and the value returned; of the
\* statistics, total_documents and sample_types are kept (latest_ingestion
\* is never read and collection_size is only logged)
get_collection_stats(coll, fails_at) ==
    IF fails_at > 0
    THEN [issued |-> fails_at, ret |-> JDict(EmptyDict)]
    ELSE [issued |-> Len(StatsOps),
          ret |-> JDict([total_documents |-> JInt(Cardinality(coll)),
                         sample_types |->
                             [ty \in {TypeOf(d) : d \in coll} |->
                                 Cardinality({d \in coll : TypeOf(d) = ty})]])]

\* main: stats = connector.get_collection_stats(), the log of the
\* statistics, and the normal end of the process
MainStats ==
    /\ pc = "returned"
    /\ \E fails_at \in 0..Len(StatsOps) :
        LET res == get_collection_stats(collection, fails_at) IN
        /\ stats' = res.ret
        /\ ops_after_close' = IF closed > 0 THEN ops_after_close + res.issued
                              ELSE ops_after_close
    /\ pc' = "exit0"
    /\ UNCHANGED <<caught, config, call, attempt, sample_hashes, idx, successful_loads,
                   failed_loads, transformed_data, collection, closed, clock,
                   exc, summary, requests, outcomes, waits, last_resp,
                   api_result, first_try, details_calls, transforms,
                   store_writes, fate, thrown, sleeps, load_arg, load_outcome,
                   load_ret, prev_load, coll_before, last_loaded,
                   last_applied, details,
                   probe>>

\* what main's except Exception has caught: the exception of
\* run_etl_pipeline, or the one of the construction
Handled == IF pc = "raised" THEN [exc |-> exc, at |-> "run"] ELSE caught

\* main: except Exception: logger.error(...); sys.exit(1)
MainExcept ==
    /\ pc \in {"raised", "failed"}
    /\ pc' = "exit1"
    /\ caught' = Handled
    /\ UNCHANGED <<config, loads, call, attempt, sample_hashes, idx,
                   successful_loads, failed_loads, transformed_data, closed,
                   clock, exc, summary, requests, outcomes, waits, last_resp,
                   api_result, first_try, details_calls, transforms,
                   store_writes, fate, thrown, sleeps, details, stats, probe>>

(***************************************************************************)
(* KeyboardInterrupt.  No `except Exception` catches it.  It can arrive at *)
(* every call the program makes; one arrives in a run of the process at    *)
(* most.  Each point below names the calls it stands for.                  *)
(***************************************************************************)
\* at the entry of main, before its try block
EntryOfMain == "main"

\* in the try block of main outside run_etl_pipeline: in the constructor
\* ("start"), between the constructor and the run ("idle"), in
\* get_collection_stats and the log of the statistics ("returned")
MainPoints == {"start", "idle", "returned"}

\* in the try block of run_etl_pipeline: before the first request ("try"),
\* in _make_api_request ("request"), after it returned and before
\* extract_sample_list or extract_sample_details does ("got"), in
\* extract_sample_details before the request ("enter"), after it returned
\* ("details"), in transform_data ("transform"), at the head of the loop,
\* in the inter-sample sleep and in the summary ("loop"), in load_data
\* ("load"), after load_data returned and before the tally ("tally"), after
\* the tally and before the inter-sample sleep ("sleep")
TryPoints ==
    {"try", "request", "got", "enter", "details", "transform", "loop", "load",
     "tally", "sleep"}

\* "entry": in run_etl_pipeline before its try block; "cleanup": in its
\* except and finally blocks
InterruptPoints ==
    {EntryOfMain} \cup MainPoints \cup {"entry"} \cup TryPoints \cup {"cleanup"}

\* the close() calls after a KeyboardInterrupt: one that arrives in the try
\* block runs the finally block in full; one that arrives in the except or
\* finally block finds close() called or not yet; one that arrives before
\* the try block or in main meets no finally block
InterruptedClose(at, n) ==
    IF at \in TryPoints THEN {Finally(n)}
    ELSE IF at = "cleanup" THEN {n, Finally(n)}
    ELSE {n}

\* the KeyboardInterrupt that arrived at `at` on its way out: through
\* run_etl_pipeline to main's except KeyboardInterrupt, which logs it and
\* lets main return; or out of main, when it arrived before main's try
\* block; or out of the method that was called on its own
Interrupted(at) ==
    /\ pc' = IF at = EntryOfMain THEN "killed" ELSE "interrupted"
    /\ caught' = IF at = EntryOfMain THEN caught
                 ELSE [exc |-> "KeyboardInterrupt", at |-> at]
    /\ IF fn = "none"
       THEN /\ closed' \in InterruptedClose(at, closed)
            /\ exc' = IF at \in {EntryOfMain} \cup MainPoints THEN exc
                      ELSE "KeyboardInterrupt"
            /\ UNCHANGED fn_ret
       ELSE /\ fn_ret' = [exc |-> "KeyboardInterrupt", val |-> None]
            /\ UNCHANGED <<closed, exc>>

\* the points a KeyboardInterrupt can arrive at while main is at pc, the
\* ones inside _make_api_request and right after it apart
PointsAt ==
    CASE pc = "start" -> {EntryOfMain, "start"}
      [] pc = "idle" -> {"idle", "entry", "try"}
      [] pc = "loop" -> IF idx <= Len(sample_hashes) THEN {"loop", "enter"}
                        ELSE {"loop"}
      [] pc = "load" -> {"load", "tally"} \cup
                        (IF idx < Len(sample_hashes) THEN {"sleep"} ELSE {})
      [] pc \in {"cleanup", "returned"} -> {pc}
      [] OTHER -> {}

\* a KeyboardInterrupt in load_data that finds replace_one not yet called,
\* under way, or applied by the store with the answer still to come
LoadCut ==
    \E issued \in BOOLEAN, landed \in BOOLEAN :
        /\ landed => issued
        /\ store_writes' = IF issued THEN [store_writes EXCEPT ![idx] = @ + 1]
                           ELSE store_writes
        /\ collection' =
               IF landed
               THEN replace_one(collection, transformed_data.sha256,
                                transformed_data).coll
               ELSE collection
        /\ last_applied' =
               IF landed /\ transformed_data.sha256 \in Keys
               THEN [last_applied EXCEPT ![transformed_data.sha256] =
                        [data |-> transformed_data, ret |-> FALSE]]
               ELSE last_applied
        /\ UNCHANGED <<ops_after_close, first_try, load_arg, load_outcome,
                       load_ret, prev_load, coll_before, last_loaded>>

\* a KeyboardInterrupt in get_collection_stats, between the store
\* operations, or later while main logs the statistics
StatsCut ==
    \E issued \in 0..Len(StatsOps), logging \in BOOLEAN :
        /\ logging => issued = Len(StatsOps)
        /\ ops_after_close' = IF closed > 0 THEN ops_after_close + issued
                              ELSE ops_after_close
        /\ stats' = IF logging THEN get_collection_stats(collection, 0).ret
                    ELSE stats

\* what the step under way has done when the KeyboardInterrupt arrives at
\* `at`: the load phase, the tally, the lines of the summary, the statistics
InterruptedStep(at) ==
    CASE at = "load" ->
            /\ LoadCut
            /\ UNCHANGED <<idx, successful_loads, failed_loads, fate, sleeps,
                           summary, stats>>
      [] at = "tally" ->
            /\ LoadPhase
            /\ UNCHANGED <<idx, successful_loads, failed_loads, fate, sleeps,
                           summary, stats>>
      [] at = "sleep" ->
            /\ LoadTally(FALSE)
            /\ UNCHANGED <<summary, stats>>
      [] at = "loop" /\ idx > Len(sample_hashes) ->
            /\ \E n \in 0..(Len(SummaryLog) - 1) : summary' = Summary(n)
            /\ UNCHANGED <<loads, idx, successful_loads, failed_loads, fate,
                           sleeps, store_writes, first_try, stats>>
      [] at = "returned" ->
            /\ StatsCut
            /\ UNCHANGED <<collection, load_arg, load_outcome, load_ret,
                           prev_load, coll_before, last_loaded, last_applied,
                           idx, successful_loads, failed_loads, fate, sleeps,
                           store_writes, first_try, summary>>
      [] OTHER ->
            UNCHANGED <<loads, idx, successful_loads, failed_loads, fate,
                        sleeps, store_writes, first_try, summary, stats>>

\* a KeyboardInterrupt outside _make_api_request and the step that follows
\* its return
Interrupt ==
    /\ fn = "none"
    /\ \E at \in PointsAt :
        /\ Interrupted(at)
        /\ InterruptedStep(at)
        /\ details_calls' = IF at = "enter"
                            THEN [details_calls EXCEPT ![idx] = @ + 1]
                            ELSE details_calls
    /\ UNCHANGED <<config, call, attempt, sample_hashes, transformed_data,
                   clock, requests, outcomes, waits, last_resp, api_result,
                   transforms, thrown, details, fn, fn_args>>

\* a KeyboardInterrupt inside _make_api_request: before requests.get is
\* called or while it waits for the answer, or after the answer in what
\* the loop body does with it (lines 122-144), before or after its sleep
InterruptCall ==
    /\ pc = "request"
    /\ fn # "extract_sample_list"
    /\ \/ /\ \E sent \in BOOLEAN :
                /\ sent => HasAttempt(attempt)
                /\ requests' = IF sent THEN requests + 1 ELSE requests
          /\ UNCHANGED <<outcomes, waits, last_resp, first_try>>
       \/ /\ HasAttempt(attempt)
          /\ requests' = requests + 1
          /\ \E resp \in Answers :
                LET step == AttemptStep(attempt, resp) IN
                /\ last_resp' = resp
                /\ outcomes' = Append(outcomes, resp.kind)
                /\ first_try' = (first_try /\ resp.kind \in {"json", "text"})
                /\ \E k \in 0..Len(step.slept) :
                      waits' = waits \o SubSeq(step.slept, 1, k)
    /\ Interrupted("request")
    /\ UNCHANGED <<config, loads, call, attempt, api_result, sample_hashes, idx,
                   successful_loads, failed_loads, transformed_data, clock,
                   summary, details_calls, transforms, store_writes, fate,
                   thrown, sleeps, details, stats, fn, fn_args>>

\* the points between the return of r from _make_api_request and the next
\* request or the load phase: the logger calls of extract_sample_list
\* (lines 163, 171) and extract_sample_details (189), the ones of
\* run_etl_pipeline after extract_sample_details (330, 335) and the ones of
\* transform_data (205, 240, 256)
CutPoints(r) ==
    IF call.action = "getlist" THEN {"got"}
    ELSE {"got", "details"} \cup (IF Truthy(r) THEN {"transform"} ELSE {})

\* what the caller has done when the KeyboardInterrupt arrives at `at`;
\* in transform_data the time has been read (line 210) or not yet (205)
CallerCut(r, at) ==
    /\ api_result' = r
    /\ clock' \in IF at = "transform" THEN clock..MaxClock ELSE {clock}
    /\ details' = IF at = "got" THEN details ELSE extract_sample_details(r)
    /\ transforms' = IF at = "transform" THEN [transforms EXCEPT ![idx] = @ + 1]
                     ELSE transforms
    /\ Interrupted(at)

\* a KeyboardInterrupt after _make_api_request returned, before the step of
\* run_etl_pipeline that follows the return is over
InterruptReturn ==
    /\ pc = "request"
    /\ fn = "none"
    /\ \/ /\ ~HasAttempt(attempt)
          /\ \E at \in CutPoints(None) : CallerCut(None, at)
          /\ UNCHANGED <<requests, outcomes, waits, last_resp, first_try>>
       \/ /\ HasAttempt(attempt)
          /\ requests' = requests + 1
          /\ \E resp \in Answers :
                LET step == AttemptStep(attempt, resp) IN
                /\ step.returns
                /\ last_resp' = resp
                /\ outcomes' = Append(outcomes, resp.kind)
                /\ waits' = waits \o step.slept
                /\ first_try' = (first_try /\ resp.kind \in {"json", "text"})
                /\ \E at \in CutPoints(step.value) : CallerCut(step.value, at)
    /\ UNCHANGED <<config, loads, call, attempt, sample_hashes, idx,
                   successful_loads, failed_loads, transformed_data,
                   summary, details_calls, store_writes, fate, thrown, sleeps,
                   stats, fn, fn_args>>

\* a KeyboardInterrupt inside main's except Exception block: no clause of
\* main catches it and it ends the process
InterruptHandler ==
    /\ pc \in {"raised", "failed"}
    /\ pc' = "killed"
    /\ caught' = Handled
    /\ UNCHANGED <<config, loads, call, attempt, sample_hashes, idx,
                   successful_loads, failed_loads, transformed_data, closed,
                   clock, exc, summary, requests, outcomes, waits, last_resp,
                   api_result, first_try, details_calls, transforms,
                   store_writes, fate, thrown, sleeps, details, stats, probe>>

Next ==
    \/ Construct \/ RunStart \/ ReqAttempt \/ ReqExhausted \/ LoopHead
    \/ LoadStep \/ Cleanup \/ MainStats \/ MainExcept \/ Interrupt
    \/ InterruptCall \/ InterruptReturn \/ InterruptHandler

Spec == Init /\ [][Next]_vars

(***************************************************************************)
(* _make_api_request on its own: one call, answered attempt by attempt or  *)
(* interrupted.                                                            *)
(***************************************************************************)
ReqInit ==
    /\ max_retries \in 0..MaxAttempts
    /\ rate_limit_delay \in Delays
    /\ sample_limit = 0
    /\ pc = "fn"
    /\ Blank

\* connector._make_api_request(endpoint, params), up to the first request
MakeCall ==
    /\ pc = "fn"
    /\ fn = "none"
    /\ \E action \in {"getlist", "details"}, hash \in {<<>>, <<"a">>} :
        /\ (action = "getlist") <=> (hash = <<>>)
        /\ fn' = "_make_api_request"
        /\ fn_args' = [endpoint |-> action, hash |-> hash]
        /\ StartCall(action, hash)
    /\ pc' = "request"
    /\ UNCHANGED <<config, loads, sample_hashes, idx, successful_loads,
                   failed_loads, transformed_data, closed, clock, exc, summary,
                   requests, first_try, details_calls, transforms,
                   store_writes, fate, thrown, sleeps, details, stats, caught,
                   fn_ret>>

ReqNext == MakeCall \/ ReqAttempt \/ ReqExhausted \/ InterruptCall

SpecReq == ReqInit /\ [][ReqNext]_vars

(***************************************************************************)
(* load_data on its own: any sequence of calls, over the canonical records *)
(* transform_data produces.                                                *)
(***************************************************************************)
LoadBodies == {FullBody, ListBody}

\* a full record ingested at any time, a text-lines record ingested at 0
CanonicalRecords ==
    {TransformRecord(FullBody, k.s, now) : k \in Keys, now \in 0..MaxClock}
        \cup {TransformRecord(b, k.s, 0) : b \in LoadBodies, k \in Keys}

\* load_data reads none of the settings
LoadInit ==
    /\ max_retries = 0
    /\ rate_limit_delay = 1
    /\ sample_limit = 0
    /\ pc = "loader"
    /\ Blank

LoadOnly ==
    /\ pc = "loader"
    /\ \E doc \in CanonicalRecords, store_raises \in BOOLEAN, landed \in BOOLEAN :
        /\ landed => store_raises
        /\ LoadCall(doc, store_raises, landed)
    /\ UNCHANGED <<config, pc, call, attempt, sample_hashes, idx, successful_loads,
                   failed_loads, transformed_data, closed, clock, exc, summary, requests, outcomes,
                   waits, last_resp, api_result, first_try, details_calls,
                   transforms, store_writes, fate, thrown, sleeps, details,
                   stats, caught, probe>>

SpecLoad == LoadInit /\ [][LoadOnly]_vars


(***************************************************************************)
(* transform_data, _calculate_completeness and extract_sample_list on      *)
(* their own: one call each, over bounded sets of arguments.               *)
(***************************************************************************)
\* words an F_TYPE value is made of
TypeWords ==
    {<<"P", "E", "3", "2">>,
     <<"e", "x", "e", "c", "u", "t", "a", "b", "l", "e">>,
     <<"P", "D", "F">>,
     <<"Z", "i", "p">>,
     <<"a", "r", "c", "h", "i", "v", "e">>,
     <<"d", "a", "t", "a">>}

\* the words joined by single spaces
RECURSIVE WordsText(_)
WordsText(ws) ==
    IF ws = <<>> THEN <<>>
    ELSE IF Len(ws) = 1 THEN ws[1]
    ELSE ws[1] \o <<" ">> \o WordsText(Tail(ws))

WordSeqs == SeqsUpTo(TypeWords, MaxWords)

\* a field that is not in the record
Absent == [t |-> "absent"]

\* the record of the fields of c that are not Absent
Record(c) == JDict([k \in {f \in DOMAIN c : c[f] # Absent} |-> c[k]])

\* values of raw_data['F_TYPE']
TypeValues == {Absent, JNull, JInt(0)} \cup {JStr(WordsText(ws)) : ws \in WordSeqs}

\* values of raw_data['ADDED']
DateValues ==
    {Absent, FullBody.d["ADDED"], Str1("x"), JStr(<<>>), JInt(7),
     JStr(<<"2", "0", "2", "4", "-", "1", "-", "5", "\t", "U+0669", ":", "3",
            "U+0660", ":", "7">>)}

\* the raw_data arguments of transform_data
TransformInputs ==
    {Record([MD5 |-> m, F_TYPE |-> ty, ADDED |-> ad]) :
        m \in {Absent, Str1("m")}, ty \in TypeValues, ad \in DateValues}
    \cup {ListBody, Str1("x"), JInt(7), None}

\* the data arguments of _calculate_completeness
CompletenessInputs ==
    {Record([MD5 |-> a, SHA1 |-> b, SHA256 |-> c, F_TYPE |-> d, ADDED |-> e,
             SSDEEP |-> f]) :
        a \in {Absent, Str1("m"), JStr(<<>>)}, b \in {Absent, Str1("s"), JNull},
        c \in {Absent, Str1("a"), JInt(0)}, d \in {Absent, Str1("t"), JStr(<<>>)},
        e \in {Absent, JInt(7), JStr(<<>>)}, f \in {Absent, Str1("3"), JStr(<<>>)}}
    \cup {ListBody, Str1("x"), JInt(7), None}

FnInit ==
    /\ max_retries \in 0..MaxRetries
    /\ rate_limit_delay \in Delays
    /\ sample_limit = 0
    /\ pc = "fn"
    /\ Blank

\* what a method applied on its own leaves alone
pipeline == <<config, loads, pc, call, attempt, sample_hashes, idx,
              successful_loads, failed_loads, transformed_data, closed, exc,
              summary, requests, outcomes, waits, last_resp, api_result,
              first_try, details_calls, transforms, store_writes, fate, thrown,
              sleeps, details, stats, caught>>

\* connector.transform_data(raw_data, sample_hash)
ApplyTransform ==
    /\ pc = "fn"
    /\ fn = "none"
    /\ \E raw_data \in TransformInputs, key \in Keys, now \in clock..MaxClock :
        /\ fn' = "transform_data"
        /\ fn_args' = [raw_data |-> raw_data, sample_hash |-> key.s]
        /\ fn_ret' = transform_data(raw_data, key.s, now)
        /\ clock' = now
    /\ UNCHANGED pipeline

\* connector._calculate_completeness(data)
ApplyCompleteness ==
    /\ pc = "fn"
    /\ fn = "none"
    /\ \E data \in CompletenessInputs :
        /\ fn' = "calculate_completeness"
        /\ fn_args' = [data |-> data]
        /\ fn_ret' = calculate_completeness(data)
    /\ UNCHANGED <<pipeline, clock>>

\* connector.extract_sample_list(limit), up to the first request
ExtractListCall ==
    /\ pc = "fn"
    /\ fn = "none"
    /\ \E limit \in 0..(MaxLines + 1) :
        /\ fn' = "extract_sample_list"
        /\ fn_args' = [limit |-> limit]
    /\ pc' = "request"
    /\ StartCall("getlist", <<>>)
    /\ UNCHANGED <<config, loads, sample_hashes, idx, successful_loads,
                   failed_loads, transformed_data, closed, clock, exc, summary,
                   requests, first_try, details_calls, transforms,
                   store_writes, fate, thrown, sleeps, details, stats, caught,
                   fn_ret>>

FnNext ==
    \/ ApplyTransform \/ ApplyCompleteness
    \/ ExtractListCall \/ ReqAttempt \/ ReqExhausted

SpecFn == FnInit /\ [][FnNext]_vars

(***************************************************************************)
(* The claims.                                                             *)
(***************************************************************************)
\* run_etl_pipeline returned, main is past it or not
Returned == pc \in {"returned", "exit0"}

\* run_etl_pipeline raised, main is past it or not
Raised == pc = "raised" \/ (pc \in {"exit1", "killed"} /\ caught.at = "run")

\* run_etl_pipeline is being left: its except and finally blocks
Leaving == pc = "cleanup"

\* where main is, or was when the KeyboardInterrupt arrived
At == IF pc = "interrupted" THEN caught.at ELSE pc

\* between two samples: the load phase and the tally of idx - 1 are over and
\* the details request of idx is still to come
BetweenSamples == At \in {"loop", "sleep"}

\* the _make_api_request call is under way
CallGoesOn == pc = "request"

\* a KeyboardInterrupt ended the _make_api_request call: it returned nothing
CallCut == pc = "interrupted" /\ caught.at = "request"

\* the _make_api_request call has not returned
CallUnderWay == At = "request"

\* the last _make_api_request call returned
CallReturned == call.action # "none" /\ ~CallUnderWay

\* what the caller of _make_api_request got when it was called on its own
GotFromCall(r) ==
    fn = "_make_api_request" => fn_ret = [exc |-> "none", val |-> r]

AllRequestErrors == \A i \in 1..Len(outcomes) : outcomes[i] = "error"

\* C1: for max_retries >= 1, a call whose every attempt fails with a request
\* error other than 429 makes exactly max_retries requests and then returns
\* None; no exception reaches the caller.  While it is under way it has made
\* fewer; a KeyboardInterrupt can end it after any of them.
C1_AlwaysFailingReturnsNone ==
    (max_retries >= 1 /\ call.action # "none" /\ AllRequestErrors) =>
        /\ Len(outcomes) <= max_retries
        /\ CallGoesOn => Len(outcomes) < max_retries
        /\ CallReturned =>
            /\ Len(outcomes) = max_retries
            /\ api_result = None
            /\ GotFromCall(None)
            /\ ~Raised
            /\ thrown = NotThrown

C1_Witness ==
    /\ pc = "fn"
    /\ fn = "_make_api_request"
    /\ max_retries = 3
    /\ rate_limit_delay = 3
    /\ outcomes = <<"error", "error", "error">>
    /\ waits = <<3, 6>>
    /\ requests = 3
    /\ fn_ret = [exc |-> "none", val |-> None]

\* what a successful answer carries
Payload(resp) ==
    IF resp.kind = "json" THEN resp.body ELSE TextResponse(resp.body.s)

\* C2: when the first attempt is answered with 429 and the second succeeds,
\* the call sleeps exactly once, makes exactly 2 requests and no third, and
\* returns the payload of the second answer, unless a KeyboardInterrupt ends
\* it between the second answer and the return.
C2_RateLimitThenSuccess ==
    (/\ Len(outcomes) >= 2
     /\ outcomes[1] = "429"
     /\ outcomes[2] \in {"json", "text"}) =>
        /\ Len(outcomes) = 2
        /\ max_retries >= 2
        /\ waits = <<rate_limit_delay>>
        /\ (fn = "_make_api_request" \/ call.action = "getlist") => requests = 2
        /\ CallCut \/ CallReturned
        /\ CallReturned =>
            /\ api_result = Payload(last_resp)
            /\ GotFromCall(Payload(last_resp))

C2_Witness ==
    /\ pc = "fn"
    /\ fn = "_make_api_request"
    /\ outcomes = <<"429", "json">>
    /\ call.action = "details"
    /\ rate_limit_delay = 3
    /\ waits = <<3>>
    /\ requests = 2
    /\ fn_ret = [exc |-> "none", val |-> FullBody]

\* C3, as stated: after any sequence of load_data calls the collection holds
\* at most one document per sha256, and for every key it is exactly the
\* record of the most recent successful load_data call with that key.
C3_OneDocumentPerKeyLastWriteWins ==
    \A k \in Keys :
        /\ Cardinality(Matching(collection, k)) <= 1
        /\ IF last_loaded[k] = None
           THEN Matching(collection, k) = {}
           ELSE Matching(collection, k) = {last_loaded[k]}

\* C3, amended: after any sequence of load_data calls the collection holds
\* at most one document per sha256, and for every key it is exactly the
\* record of the most recent load_data call with that key whose write the
\* store applied: the most recent successful call, unless a later call
\* returned False although the store had applied its write.
C3_LastAppliedWriteWins ==
    \A k \in Keys :
        /\ Cardinality(Matching(collection, k)) <= 1
        /\ IF last_applied[k] = None
           THEN Matching(collection, k) = {} /\ last_loaded[k] = None
           ELSE /\ Matching(collection, k) = {last_applied[k].data}
                /\ last_applied[k].ret => last_loaded[k] = last_applied[k].data

\* a call returned False after the store had replaced the record of an
\* earlier successful call
C3_Witness ==
    /\ load_outcome = "error"
    /\ ~load_ret
    /\ last_loaded[load_arg.sha256] # None
    /\ last_loaded[load_arg.sha256] # load_arg
    /\ Matching(collection, load_arg.sha256) = {load_arg}
    /\ Cardinality(collection) = 2

\* the last two load_data calls got the same record and the store raised in
\* neither
SameRecordTwice ==
    /\ prev_load.outcome \notin {"none", "error"}
    /\ load_outcome # "error"
    /\ prev_load.data = load_arg

\* C4: calling load_data twice with the same record leaves the collection as
\* one call does, with exactly one document of that key, and both calls
\* return True whatever the store reports.
C4_LoadIdempotent ==
    SameRecordTwice =>
        /\ collection = coll_before
        /\ Cardinality(Matching(collection, load_arg.sha256)) = 1
        /\ prev_load.ret
        /\ load_ret

C4_Witness ==
    /\ SameRecordTwice
    /\ prev_load.outcome = "replaced"
    /\ load_outcome = "unchanged"

RECURSIVE Sum(_)
Sum(f) == IF f = <<>> THEN 0 ELSE Head(f) + Sum(Tail(f))

RunOver == Returned \/ Raised

\* C5: a run over n >= 1 identifiers in which every request and every store
\* write succeeds at once finishes with successful_loads = n and
\* failed_loads = 0, after exactly n + 1 requests and n upserts.
C5_CleanRunLoadsAll ==
    (RunOver /\ sample_hashes # <<>> /\ first_try) =>
        /\ Returned
        /\ summary.reached
        /\ summary.successful = Len(sample_hashes)
        /\ summary.failed = 0
        /\ requests = Len(sample_hashes) + 1
        /\ Sum(store_writes) = Len(sample_hashes)

\* C6: when the extracted identifier list is empty the run aborts: no details
\* request, no transform, no store write, no summary, and it returns without
\* raising.
C6_EmptyListAborts ==
    (/\ pc \in {"loop", "load"} \/ Leaving \/ RunOver
     /\ sample_hashes = <<>>
     /\ thrown = NotThrown) =>
        /\ Leaving \/ Returned
        /\ exc = "none"
        /\ ~summary.reached
        /\ call.action = "getlist"
        /\ requests = Len(outcomes)
        /\ details_calls = <<>>
        /\ transforms = <<>>
        /\ store_writes = <<>>
        /\ load_outcome = "none"
        /\ collection = {}

C6_Witness ==
    /\ pc = "returned"
    /\ sample_hashes = <<>>
    /\ sample_limit = 0
    /\ api_result = DataBody

\* C7: an identifier whose details fetch yields no data is tallied as exactly
\* one failed load, is neither transformed nor stored nor fetched again, and
\* the loop goes on: every identifier of the list gets exactly one
\* extract_sample_details call however earlier identifiers fared.
C7_EveryIdentifierFetchedOnce ==
    /\ \A i \in DOMAIN fate :
        fate[i] = "no_data" =>
            /\ details_calls[i] = 1
            /\ transforms[i] = 0
            /\ store_writes[i] = 0
    /\ failed_loads = Cardinality({i \in DOMAIN fate : fate[i] \in {"no_data", "load_failed"}})
    /\ RunOver => \A i \in DOMAIN details_calls : details_calls[i] = 1

\* C8: load_data raises nothing: when the store operation raises it returns
\* False, the sample is tallied as one failed load and the loop goes on to the
\* next identifier; it returns True whenever the store operation does not
\* raise.
C8_LoadDataNeverRaises ==
    /\ load_outcome # "none" => (load_ret <=> load_outcome # "error")
    /\ thrown.at > 0 => store_writes[thrown.at] = 0
    /\ successful_loads = Cardinality({i \in DOMAIN fate : fate[i] = "loaded"})
    /\ \A i \in DOMAIN fate :
        /\ (pc = "interrupted" /\ caught.at \in {"load", "tally"} /\ i = idx) \/
           (fate[i] \in {"loaded", "load_failed"} <=> store_writes[i] = 1)
        /\ (BetweenSamples /\ idx = i + 1 /\ store_writes[i] = 1) =>
               fate[i] = IF load_outcome = "error" THEN "load_failed" ELSE "loaded"
        /\ (fate[i] = "load_failed" /\ i < Len(sample_hashes)) =>
               (BetweenSamples /\ idx = i + 1) \/ details_calls[i + 1] = 1

C8_Witness ==
    /\ load_outcome = "error"
    /\ Len(sample_hashes) = 2
    /\ fate[1] = "load_failed"
    /\ details_calls[2] = 1
    /\ failed_loads = 1

\* C9: an exception raised while identifier k is processed aborts the run: no
\* details request, transform or store write for any later identifier, no
\* summary, and the same exception is raised to the caller.
C9_ExceptionAbortsRun ==
    thrown.at >= 1 =>
        /\ Leaving \/ Raised \/ (pc = "interrupted" /\ caught.at = "cleanup")
        /\ pc # "interrupted" => exc = thrown.exc
        /\ ~summary.reached
        /\ \A j \in DOMAIN fate :
            j > thrown.at =>
                /\ details_calls[j] = 0
                /\ transforms[j] = 0
                /\ store_writes[j] = 0

C9_Witness ==
    /\ thrown = [at |-> 1, exc |-> "TypeError"]
    /\ Len(sample_hashes) = 2
    /\ exc = "TypeError"

\* C10: run_etl_pipeline closes the store connection exactly once before it
\* hands control back, on the normal exit, on the abort on an empty list and
\* on the exit by an exception, and not before.  A KeyboardInterrupt in the
\* try block is followed by the one close() as well; one before the try
\* block is followed by none, one in the finally block by at most one.
C10_ClosedOnceOnEveryExit ==
    /\ RunOver => closed = 1
    /\ (pc = "interrupted" /\ caught.at \in TryPoints \cup {"returned"}) =>
           closed = 1
    /\ pc \in {"start", "idle", "request", "loop", "load", "cleanup", "failed"} =>
           closed = 0
    /\ caught.at \in {"start", "idle", "entry"} => closed = 0
    /\ closed <= 1

C10_Witness ==
    /\ pc = "raised"
    /\ thrown.at = 2
    /\ closed = 1

\* C11: transform_data is total: for every raw record (a mapping with
\* arbitrary values, an empty mapping, a non-mapping) and every identifier it
\* raises nothing and returns a record with sha256 = identifier,
\* raw_response = the input, ingestion_timestamp and source set and
\* data_completeness in [0, 1].
C11_TransformTotal ==
    fn = "transform_data" =>
        /\ fn_ret.exc = "none"
        /\ fn_ret.val.sha256 = JStr(fn_args.sample_hash)
        /\ fn_ret.val.raw_response = fn_args.raw_data
        /\ fn_ret.val.ingestion_timestamp = clock
        /\ fn_ret.val.source = "malshare_api"
        /\ fn_ret.val.data_completeness.num \in 0..fn_ret.val.data_completeness.den

\* positions of the lines that are not empty once trimmed
Kept(ls) == {i \in 1..Len(ls) : Strip(ls[i].s) # <<>>}

\* C12: for every line sequence the list action returns and every limit >= 0
\* extract_sample_list returns the trimmed non-empty lines in their order,
\* cut to the first limit of them (empty lines are dropped before the cut);
\* it returns the empty sequence when the executor returns no data.
C12_TrimmedNonEmptyFirstLimit ==
    (fn = "extract_sample_list" /\ pc = "fn") =>
        LET response == api_result
            out == fn_ret.val
        IN  /\ fn_ret.exc = "none"
            /\ IF response = None \/ "data" \notin DOMAIN response.d
               THEN out = <<>>
               ELSE LET ls == response.d["data"].l
                        n == IF fn_args.limit < Cardinality(Kept(ls))
                             THEN fn_args.limit ELSE Cardinality(Kept(ls))
                    IN  /\ Len(out) = n
                        /\ \A j \in 1..n : \E i \in Kept(ls) :
                            /\ Cardinality({h \in Kept(ls) : h <= i}) = j
                            /\ out[j] = Strip(ls[i].s)

C12_Witness ==
    /\ fn = "extract_sample_list"
    /\ pc = "fn"
    /\ fn_args.limit = 1
    /\ api_result =
           JDict([data |-> JList(<<Str1(" "), JStr(<<"\t", "a">>), JStr(<<"b", "\r">>)>>)])
    /\ fn_ret.val = << <<"a">> >>

\* the class of a word of an F_TYPE value, "unknown" when it has none
WordClass(w) ==
    IF w \in {<<"P", "E", "3", "2">>,
              <<"e", "x", "e", "c", "u", "t", "a", "b", "l", "e">>}
    THEN "executable"
    ELSE IF w = <<"P", "D", "F">> THEN "document"
    ELSE IF w \in {<<"Z", "i", "p">>, <<"a", "r", "c", "h", "i", "v", "e">>}
    THEN "archive"
    ELSE "unknown"

\* the class of the earliest rule that a word of ws matches
FirstRuleClass(ws) ==
    LET classes == {WordClass(ws[i]) : i \in 1..Len(ws)} IN
    IF "executable" \in classes THEN "executable"
    ELSE IF "document" \in classes THEN "document"
    ELSE IF "archive" \in classes THEN "archive"
    ELSE "unknown"

\* the record is a mapping and this is what its F_TYPE is made of
TypeIsWords(raw, ws) ==
    /\ IsDict(raw)
    /\ IF ws = <<>>
       THEN "F_TYPE" \notin DOMAIN raw.d \/ raw.d["F_TYPE"] = JStr(<<>>)
       ELSE "F_TYPE" \in DOMAIN raw.d /\ raw.d["F_TYPE"] = JStr(WordsText(ws))

\* the classification of the calls of transform_data that return
SampleTypeWhenReturned ==
    (fn = "transform_data" /\ fn_ret.exc = "none" /\ IsDict(fn_args.raw_data)) =>
        /\ fn_ret.val.sample_type \in {"executable", "document", "archive", "unknown"}
        /\ \A ws \in WordSeqs :
            TypeIsWords(fn_args.raw_data, ws) =>
                fn_ret.val.sample_type = FirstRuleClass(ws)

\* C13: for every mapping raw record sample_type is the class of the first
\* rule the lower-cased F_TYPE string (empty when absent) matches: pe32 or
\* executable, then pdf, then zip or archive, else unknown; sample_type is
\* always one of these four values.
C13_SampleTypeFirstRule ==
    (fn = "transform_data" /\ IsDict(fn_args.raw_data)) =>
        /\ fn_ret.exc = "none"
        /\ SampleTypeWhenReturned

\* the field is present with a value that is neither empty nor falsy
Filled(data, f) ==
    /\ f \in DOMAIN data.d
    /\ data.d[f] \notin {JStr(<<>>), JInt(0), JNull}

\* C14: data_completeness is k/5 where k counts the fields MD5, SHA1, SHA256,
\* F_TYPE and ADDED that are present with a non-empty, non-falsy value;
\* other fields do not change it, a present but empty field counts as
\* absent, and a non-mapping scores 0.
C14_CompletenessIsFilledOverFive ==
    fn = "calculate_completeness" =>
        LET data == fn_args.data
            k == IF ~IsDict(data) THEN 0
                 ELSE (IF Filled(data, "MD5") THEN 1 ELSE 0)
                      + (IF Filled(data, "SHA1") THEN 1 ELSE 0)
                      + (IF Filled(data, "SHA256") THEN 1 ELSE 0)
                      + (IF Filled(data, "F_TYPE") THEN 1 ELSE 0)
                      + (IF Filled(data, "ADDED") THEN 1 ELSE 0)
        IN  fn_ret = [num |-> k, den |-> 5]

C14_Witness ==
    /\ fn = "calculate_completeness"
    /\ fn_args.data =
           JDict([MD5 |-> Str1("m"), SHA1 |-> JNull, F_TYPE |-> JStr(<<>>),
                  ADDED |-> JInt(7), SSDEEP |-> Str1("3")])
    /\ fn_ret.num = 2

\* the list position whose handling is under way or was the last to end
Current == IF BetweenSamples \/ idx > Len(sample_hashes) THEN idx - 1 ELSE idx

\* extract_sample_details has called the executor
DetailsCalled == call.action = "details" /\ At # "enter"

\* extract_sample_details has not returned: the executor is under way, or a
\* KeyboardInterrupt arrived before the return
DetailsUnderWay == At \in {"request", "got"}

\* C15: extract_sample_details(identifier) calls the executor once with the
\* details action and the identifier as hash, and returns exactly what the
\* executor returned, whatever that is (a record, an empty record, a
\* text-lines mapping, none).
C15_DetailsReturnsExecutorValue ==
    DetailsCalled =>
        /\ call.hash = sample_hashes[Current]
        /\ details_calls[Current] = 1
        /\ ~DetailsUnderWay => details = api_result

\* list positions whose handling has ended
Finished == {i \in DOMAIN fate : fate[i] # "pending"}

\* C16: the orchestrator sleeps once between the handling of any two
\* consecutive identifiers and not after the last: a run that reaches the
\* summary over n identifiers has slept n - 1 times, whatever became of each
\* sample (details missing, load failed, load succeeded).
C16_OneSleepBetweenSamples ==
    /\ sleeps = Cardinality({i \in Finished : i < Len(sample_hashes)})
                - (IF At = "sleep" THEN 1 ELSE 0)
    /\ summary.reached => sleeps = Len(sample_hashes) - 1

\* every attempt of the call so far was answered with 429
AllRateLimited == \A i \in 1..Len(outcomes) : outcomes[i] = "429"

\* C17: a call never makes more than max_retries requests; when every
\* attempt is answered with 429 it makes exactly max_retries requests, waits
\* rate_limit_delay * 2^k after attempt k (k from 0) and then returns None
\* without raising.  A KeyboardInterrupt can end the call before the wait
\* that follows the last answer.
C17_RateLimitedWithinBudget ==
    /\ Len(outcomes) <= max_retries
    /\ (call.action # "none" /\ AllRateLimited) =>
        /\ Len(waits) <= Len(outcomes)
        /\ Len(waits) >= Len(outcomes) - 1
        /\ ~CallCut => Len(waits) = Len(outcomes)
        /\ \A k \in 0..(Len(waits) - 1) : waits[k + 1] = rate_limit_delay * 2 ^ k
        /\ CallReturned =>
            /\ Len(outcomes) = max_retries
            /\ api_result = None
            /\ GotFromCall(None)
            /\ ~Raised
            /\ thrown = NotThrown

C17_Witness ==
    /\ pc = "fn"
    /\ fn = "_make_api_request"
    /\ max_retries = 3
    /\ rate_limit_delay = 3
    /\ call.action = "details"
    /\ outcomes = <<"429", "429", "429">>
    /\ waits = <<3, 6, 12>>
    /\ fn_ret = [exc |-> "none", val |-> None]

\* C18: in a process started through main() no store operation (upsert,
\* count, aggregate, find, collstats) is issued on the connection after it
\* was closed, on the normal, the empty-list and the error path.
C18_NoStoreOperationAfterClose ==
    ops_after_close = 0

\* C19: successful_loads + failed_loads is the number of identifiers whose
\* handling has ended, each of them counted once in one of the two counters;
\* at the summary the two add up to the total, the total is at least 1 and
\* the success rate lies in [0, 100].
C19_CountersPartitionFinished ==
    /\ fate # <<>> =>
        /\ Finished = 1..(idx - 1)
        /\ successful_loads + failed_loads = Cardinality(Finished)
        /\ successful_loads = Cardinality({i \in Finished : fate[i] = "loaded"})
        /\ failed_loads = Cardinality({i \in Finished : fate[i] # "loaded"})
    /\ summary.reached =>
        /\ summary.total = Len(sample_hashes)
        /\ summary.successful + summary.failed = summary.total
        /\ summary.total >= 1
        /\ summary.rate.den = summary.total
        /\ summary.rate.num >= 0
        /\ summary.rate.num <= 100 * summary.rate.den

C19_Witness ==
    /\ summary.reached
    /\ summary.total = 2
    /\ summary.successful = 1
    /\ summary.failed = 1
    /\ fate = <<"no_data", "loaded">>

====
